---- MODULE Spec2Model ----
(***************************************************************************)
(* dbgeng-rs: the "unpacker" debugger extension (examples/unpacker) and    *)
(* the "function logger" extension (examples/function_logger), together    *)
(* with the event-callback shim of the dbgeng crate (src/events.rs).       *)
(*                                                                         *)
(* The host debugging engine is the environment: it delivers breakpoint,   *)
(* exception and engine-state notifications with arbitrary register        *)
(* contents, and each of its services (register access, stack walk,        *)
(* breakpoint creation, memory read, file and process calls) may fail.     *)
(* A failing service is chosen by the "out" parameter of an action.        *)
(***************************************************************************)
EXTENDS Integers, Sequences, FiniteSets, TLC

VARIABLES
    directory,          \* MemoryRegions.directory
    breakpoints,        \* MemoryRegions.breakpoints: GUID -> CallbackBreakpointData
    allocations,        \* MemoryRegions.allocations: Vec<AllocatedMemory>
    callbacks,          \* TRUE once client.set_event_callbacks has succeeded
                        \* (function_logger: CLIENT is set at the same time)
    exception_handled,  \* PluginEventCallbacks.exception_handled
    host_bps,           \* breakpoints that exist in the host engine
    files,              \* stable storage: the dump files that exist
    inner,              \* function_logger: the registry of CallbackBreakpoints
    last,               \* the last notification or command and what it did
    dump_calls,         \* history: the dump files dump_dynamic_code was called for
    scen                \* history: how far the end-to-end scenario has run

vars == <<directory, breakpoints, allocations, callbacks, exception_handled,
          host_bps, files, inner, last, dump_calls, scen>>

-----------------------------------------------------------------------------
(* Bounds of the model *)

MaxAllocs == 2      \* records the allocation table may hold (Spec)
MaxRecords == 2     \* records the allocation table may hold (SpecHooks)
MaxBps == 4         \* breakpoints the host engine can hold
MaxTable == 2       \* records the allocation table may hold (SpecTable)

(* Win32 constants used by the code *)
PAGE_READWRITE == 4
PAGE_EXECUTE_READWRITE == 64
DEBUG_CES_EXECUTION_STATUS == 1
DEBUG_STATUS_BREAK == 6
EXCEPTION_ACCESS_VIOLATION == -1073741819      \* 0xC0000005 as NTSTATUS (i32)

(* Inputs the host may present *)
Dirs == {"unpack.txt"}
Sizes == {4096}                                 \* rdx at VirtualAlloc
Prots == {4, 64, 576}                           \* r9: RW, RWX, RWX|NOCACHE
RetSites == {4198405, 4202510}                  \* return addresses of calls
RetVals == {0, 2146435072, 2146443264}          \* rax: NULL, 0x7ff00000, 0x7ff02000
FreeAddrs == {0, 2146435072, 2146443264}        \* rcx at VirtualFree
FreeSizes == {0, 4096, 8192}                    \* rdx at VirtualFree
ExcCodes == {EXCEPTION_ACCESS_VIOLATION, -2147483645}   \* AV, breakpoint
FirstChance == {0, 1}
BpIds == 1..MaxBps
ForeignBps == {0}   \* a breakpoint of the user's, never in the registry

-----------------------------------------------------------------------------
(* entities.rs: MemoryRegions *)

\* find / position: the first of the indices that satisfy the closure, 0 if none
FirstIndex(indices) ==
    IF indices = {} THEN 0 ELSE CHOOSE i \in indices : \A j \in indices : i <= j

RemoveAt(s, i) == SubSeq(s, 1, i - 1) \o SubSeq(s, i + 1, Len(s))

AllocatedMemory(size, protection, address, function_return) ==
    [size |-> size, protection |-> protection, address |-> address,
     function_return |-> function_return]

\* new_allocation that reuses the slot of a record of the same size and
\* protection
new_allocation_reuse(allocs, mem_allocation) ==
    LET Same(a) == a.size = mem_allocation.size
                   /\ a.protection = mem_allocation.protection
        i == FirstIndex({k \in DOMAIN allocs : Same(allocs[k])})
    IN  IF i # 0 THEN [allocs EXCEPT ![i] = mem_allocation]
        ELSE Append(allocs, mem_allocation)

new_allocation(allocs, mem_allocation) == Append(allocs, mem_allocation)

\* update_allocation that records the returned address even when no record has
\* the key: it appends a record for it
update_allocation_insert(allocs, function_return_addr, allocated_address) ==
    LET Key(a) == a.function_return = function_return_addr
        i == FirstIndex({k \in DOMAIN allocs : Key(allocs[k])})
    IN  IF i # 0
        THEN [allocations |-> [allocs EXCEPT ![i].address = allocated_address],
              result |-> allocs[i].size]
        ELSE [allocations |->
                Append(allocs, AllocatedMemory(0, 0, allocated_address,
                                               function_return_addr)),
              result |-> 0]

\* returns the new table and the u64 result
update_allocation(allocs, function_return_addr, allocated_address) ==
    LET Key(a) == a.function_return = function_return_addr
        i == FirstIndex({k \in DOMAIN allocs : Key(allocs[k])})
    IN  IF i # 0
        THEN [allocations |-> [allocs EXCEPT ![i].address = allocated_address],
              result |-> allocs[i].size]
        ELSE [allocations |-> allocs, result |-> 0]

\* Option<AllocatedMemory>: <<>> is None, <<a>> is Some(a)
get_allocation(allocs, address) ==
    LET Hit(a) == address >= a.address /\ a.address + a.size < address
        i == FirstIndex({k \in DOMAIN allocs : Hit(allocs[k])})
    IN  IF i # 0 THEN <<allocs[i]>> ELSE <<>>

\* u64 at its full width: four 16-bit limbs, most significant first
Limb == 65536

U64(l3, l2, l1, l0) == <<l3, l2, l1, l0>>

u64_lt(x, y) ==
    \E k \in 1..4 : x[k] < y[k] /\ \A j \in 1..(k - 1) : x[j] = y[j]

\* x + y on u64: the sum modulo 2^64 and whether it overflowed
overflowing_add(x, y) ==
    LET s0 == x[4] + y[4]
        s1 == x[3] + y[3] + s0 \div Limb
        s2 == x[2] + y[2] + s1 \div Limb
        s3 == x[1] + y[1] + s2 \div Limb
    IN  [value |-> U64(s3 % Limb, s2 % Limb, s1 % Limb, s0 % Limb),
         overflow |-> s3 \div Limb # 0]

\* get_allocation on u64 values of full width. `a.address + a.size` is
\* evaluated only when `address >= a.address` holds; when it overflows, a
\* build with overflow checks panics there and a build without them goes on
\* with the sum modulo 2^64.
get_allocation_u64(allocs, address, overflow_checks) ==
    LET Reached(a) == ~u64_lt(address, a.address)
        Sum(a) == overflowing_add(a.address, a.size)
        Hit(a) == Reached(a) /\ u64_lt(Sum(a).value, address)
        Overflows(a) == Reached(a) /\ Sum(a).overflow
        i == FirstIndex({k \in DOMAIN allocs : Hit(allocs[k])})
        p == FirstIndex({k \in DOMAIN allocs : Overflows(allocs[k])})
    IN  IF overflow_checks /\ p # 0 /\ (i = 0 \/ p <= i)
        THEN [found |-> <<>>, fail |-> "panic"]
        ELSE [found |-> IF i # 0 THEN <<allocs[i]>> ELSE <<>>, fail |-> "none"]

\* free_allocation that removes only a record of exactly the given size
free_allocation_exact(allocs, address, size) ==
    LET Match(a) == a.address = address /\ a.size = size
        i == FirstIndex({k \in DOMAIN allocs : Match(allocs[k])})
    IN  IF i # 0 THEN RemoveAt(allocs, i) ELSE allocs

\* free_allocation that removes every record that matches
free_allocation_all(allocs, address, size) ==
    LET Keep(a) == ~(a.address = address /\ (a.size = size \/ size = 0))
    IN  SelectSeq(allocs, Keep)

free_allocation(allocs, address, size) ==
    LET Match(a) == a.address = address /\ (a.size = size \/ size = 0)
        i == FirstIndex({k \in DOMAIN allocs : Match(allocs[k])})
    IN  IF i # 0 THEN RemoveAt(allocs, i) ELSE allocs

-----------------------------------------------------------------------------
(* Formatting of the dump file name: "dump_{:x}_{}.bin" *)

RECURSIVE Digits(_, _)
\* the digits of n in the given base, most significant first
Digits(n, base) ==
    IF n < base THEN <<n>> ELSE Append(Digits(n \div base, base), n % base)

\* directory.join(format!("dump_{:x}_{}.bin", address, size))
get_dump_file(dir, mem_alloc) ==
    [dir |-> dir, hex |-> Digits(mem_alloc.address, 16),
     dec |-> Digits(mem_alloc.size, 10)]

IsMonitored(regs, g) == g \in DOMAIN regs

is_monitored_breakpoint(g) == IsMonitored(breakpoints, g)

is_address_hooked(regs, address, bp_type) ==
    \E g \in DOMAIN regs : regs[g].function = bp_type /\ regs[g].address = address

get_breakpoint_type(g) ==
    IF g \in DOMAIN breakpoints THEN breakpoints[g].function ELSE "None"

\* insert(guid, CallbackBreakpointData {function, address, bp})
add_breakpoint(regs, g, address, function) ==
    [h \in DOMAIN regs \cup {g} |->
        IF h = g THEN [address |-> address, function |-> function,
                       function_exit_hooked |-> FALSE]
        ELSE regs[h]]

\* not in entities.rs; called by VirtualAlloc_enter
is_function_exit_hooked(regs, ro) == is_address_hooked(regs, ro, "VirtualAllocExit")

\* not in entities.rs; called by VirtualAlloc_enter
set_function_exit_hooked(regs, g) ==
    IF g \in DOMAIN regs THEN [regs EXCEPT ![g].function_exit_hooked = TRUE] ELSE regs

-----------------------------------------------------------------------------
(* The host engine *)

\* the identity the host gives to the next breakpoint it creates
NewBp(host) == CHOOSE g \in BpIds \ host : \A h \in BpIds \ host : g <= h

CanAddBp(host) == BpIds \ host # {}

-----------------------------------------------------------------------------
(* monitor.rs *)

\* dump_dynamic_code without the is_file test: the region is read and written
\* whether or not its file exists
dump_dynamic_code_always(mem_alloc, out) ==
    LET file_name == get_dump_file(directory, mem_alloc) IN
    IF out = "path_err" THEN [err |-> TRUE, files |-> files, dump |-> "path_failed"]
    ELSE IF out = "read_err"
         THEN [err |-> TRUE, files |-> files, dump |-> "read_failed"]
    ELSE IF out = "create_err"
         THEN [err |-> TRUE, files |-> files, dump |-> "write_failed"]
    ELSE IF out = "write_err"
         THEN [err |-> TRUE, files |-> files \cup {file_name}, dump |-> "write_failed"]
    ELSE IF out = "log_err"
         THEN [err |-> TRUE, files |-> files \cup {file_name}, dump |-> "written"]
    ELSE [err |-> FALSE, files |-> files \cup {file_name}, dump |-> "written"]

\* out names the host call that fails, if any
dump_dynamic_code(mem_alloc, out) ==
    LET file_name == get_dump_file(directory, mem_alloc) IN
    IF out = "path_err" THEN [err |-> TRUE, files |-> files, dump |-> "path_failed"]
    ELSE IF file_name \in files THEN [err |-> FALSE, files |-> files, dump |-> "exists"]
    ELSE IF out = "read_err"
         THEN [err |-> TRUE, files |-> files, dump |-> "read_failed"]
    ELSE IF out = "create_err"
         THEN [err |-> TRUE, files |-> files, dump |-> "write_failed"]
    ELSE IF out = "write_err"
         THEN [err |-> TRUE, files |-> files \cup {file_name}, dump |-> "write_failed"]
    ELSE IF out = "log_err"
         THEN [err |-> TRUE, files |-> files \cup {file_name}, dump |-> "written"]
    ELSE [err |-> FALSE, files |-> files \cup {file_name}, dump |-> "written"]

\* the breakpoint handlers return the registry, the table, the host's
\* breakpoints, the value left in r9, and whether they failed or panicked
BpResult(regs, allocs, host, r9, fail) ==
    [breakpoints |-> regs, allocations |-> allocs, host_bps |-> host,
     r9 |-> r9, fail |-> fail]

VirtualAlloc_exit(ctx, out) ==
    IF out = "regs_err"
    THEN BpResult(breakpoints, allocations, host_bps, ctx.r9, "regs")
    ELSE LET u == update_allocation(allocations, ctx.rip, ctx.rax)
         IN  BpResult(breakpoints, u.allocations, host_bps, ctx.r9, "none")

\* VirtualAlloc_enter that records the protection it writes to r9
VirtualAlloc_enter_rewritten(g, ctx, out) ==
    IF out = "regs_err"
    THEN BpResult(breakpoints, allocations, host_bps, ctx.r9, "regs")
    ELSE IF out = "stack_panic"
    THEN BpResult(breakpoints, allocations, host_bps, ctx.r9, "panic")
    ELSE
    LET r9 == ctx.r9
        ro == ctx.ro
        allocation == AllocatedMemory(ctx.rdx,
                                      IF r9 = PAGE_EXECUTE_READWRITE
                                      THEN PAGE_READWRITE ELSE r9, 0, ro)
        allocs == new_allocation(allocations, allocation)
        hook == ~is_function_exit_hooked(breakpoints, ro)
        bp_exit == NewBp(host_bps)
        regs == IF hook
                THEN set_function_exit_hooked(
                        add_breakpoint(breakpoints, bp_exit, ro, "VirtualAllocExit"), g)
                ELSE breakpoints
        host == IF hook THEN host_bps \cup {bp_exit} ELSE host_bps
        flip == IF r9 = PAGE_EXECUTE_READWRITE /\ out # "setreg_err"
                THEN PAGE_READWRITE ELSE r9
    IN  IF hook /\ (out = "addbp_panic" \/ ~CanAddBp(host_bps))
        THEN BpResult(breakpoints, allocs, host_bps, r9, "panic")
        ELSE BpResult(regs, allocs, host, flip,
                      IF r9 = PAGE_EXECUTE_READWRITE /\ out = "setreg_err"
                      THEN "setreg" ELSE "none")

VirtualAlloc_enter(g, ctx, out) ==
    IF out = "regs_err"
    THEN BpResult(breakpoints, allocations, host_bps, ctx.r9, "regs")
    ELSE IF out = "stack_panic"
    THEN BpResult(breakpoints, allocations, host_bps, ctx.r9, "panic")
    ELSE
    LET r9 == ctx.r9
        ro == ctx.ro
        allocation == AllocatedMemory(ctx.rdx, r9, 0, ro)
        allocs == new_allocation(allocations, allocation)
        hook == ~is_function_exit_hooked(breakpoints, ro)
        bp_exit == NewBp(host_bps)
        regs == IF hook
                THEN set_function_exit_hooked(
                        add_breakpoint(breakpoints, bp_exit, ro, "VirtualAllocExit"), g)
                ELSE breakpoints
        host == IF hook THEN host_bps \cup {bp_exit} ELSE host_bps
        flip == IF r9 = PAGE_EXECUTE_READWRITE /\ out # "setreg_err"
                THEN PAGE_READWRITE ELSE r9
    IN  IF hook /\ (out = "addbp_panic" \/ ~CanAddBp(host_bps))
        THEN BpResult(breakpoints, allocs, host_bps, r9, "panic")
        ELSE BpResult(regs, allocs, host, flip,
                      IF r9 = PAGE_EXECUTE_READWRITE /\ out = "setreg_err"
                      THEN "setreg" ELSE "none")

VirtualFree(ctx, out) ==
    IF out = "regs_err"
    THEN BpResult(breakpoints, allocations, host_bps, ctx.r9, "regs")
    ELSE BpResult(breakpoints, free_allocation(allocations, ctx.rcx, ctx.rdx),
                  host_bps, ctx.r9, "none")

\* found: the record get_allocation returned; handle: the process handle opened
\* by the call is still open at its return; dump: what dump_dynamic_code did;
\* protect: the arguments of the VirtualProtectEx call that succeeded
ExcResult(err, found, fs, handle, dump, protect, fail) ==
    [err |-> err, found |-> found, files |-> fs, handle |-> handle, dump |-> dump,
     protect |-> protect, fail |-> fail]

handle_exception(exception_address, out) ==
    LET found == get_allocation(allocations, exception_address) IN
    IF found = <<>>
    THEN ExcResult(FALSE, found, files, FALSE, "none", <<>>, "none")
    ELSE
    LET mem_alloc == found[1]
        d == dump_dynamic_code(mem_alloc, out)
        restored == <<mem_alloc.address, mem_alloc.size, mem_alloc.protection>>
    IN  IF out \in {"pid_err", "open_err", "invalid_handle"}
        THEN ExcResult(TRUE, found, files, FALSE, "none", <<>>, "open")
        ELSE IF d.err
        THEN ExcResult(TRUE, found, d.files, TRUE, d.dump, <<>>, "dump")
        ELSE IF out = "protect_err"
        THEN ExcResult(TRUE, found, d.files, TRUE, d.dump, <<>>, "protect")
        ELSE IF out = "close_err"
        THEN ExcResult(TRUE, found, d.files, TRUE, d.dump, restored, "close")
        ELSE ExcResult(FALSE, found, d.files, FALSE, d.dump, restored, "none")

\* returns what start_monitor leaves behind; err is the Result it returns
StartResult(err, dir, regs, host, cb, counter) ==
    [err |-> err, directory |-> dir, breakpoints |-> regs, host_bps |-> host,
     callbacks |-> cb, exception_handled |-> counter]

start_monitor(dir, out) ==
    LET bp == NewBp(host_bps)
        host1 == host_bps \cup {bp}
        regs1 == add_breakpoint(breakpoints, bp, 0, "VirtualAllocEnter")
        bp_free == NewBp(host1)
        host2 == host1 \cup {bp_free}
        regs2 == add_breakpoint(regs1, bp_free, 0, "VirtualFree")
        Fail(regs, host) ==
            StartResult(TRUE, dir, regs, host, callbacks, exception_handled)
    IN  IF out = "args_err"
        THEN StartResult(TRUE, directory, breakpoints, host_bps, callbacks,
                         exception_handled)
        ELSE IF out = "bp1_err" \/ ~CanAddBp(host_bps) THEN Fail(breakpoints, host_bps)
        ELSE IF out = "bp1_set_err" THEN Fail(breakpoints, host1)
        ELSE IF out = "bp2_err" \/ ~CanAddBp(host1) THEN Fail(regs1, host1)
        ELSE IF out = "bp2_set_err" THEN Fail(regs1, host2)
        ELSE IF out = "cb_err" THEN Fail(regs2, host2)
        ELSE StartResult(FALSE, dir, regs2, host2, TRUE, 0)

handle_breakpoint(g, ctx, out) ==
    LET function == get_breakpoint_type(g) IN
    IF function = "VirtualAllocEnter" THEN VirtualAlloc_enter(g, ctx, out)
    ELSE IF function = "VirtualAllocExit" THEN VirtualAlloc_exit(ctx, out)
    ELSE IF function = "VirtualFree" THEN VirtualFree(ctx, out)
    ELSE BpResult(breakpoints, allocations, host_bps, ctx.r9, "none")

\* breakpoint that answers Go for every breakpoint, monitored or not
breakpoint_always_go(g, ctx, out) ==
    [r |-> handle_breakpoint(g, ctx, out), instr |-> "Go"]

\* PluginEventCallbacks::breakpoint: the handler's result and the instruction
breakpoint(g, ctx, out) ==
    IF is_monitored_breakpoint(g)
    THEN [r |-> handle_breakpoint(g, ctx, out), instr |-> "Go"]
    ELSE [r |-> BpResult(breakpoints, allocations, host_bps, ctx.r9, "none"),
          instr |-> "NoChange"]

\* exception that adds one to the counter when handle_exception succeeds
exception_increment(code, first_chance, exception_address, out) ==
    LET r == handle_exception(exception_address, out) IN
    IF code = EXCEPTION_ACCESS_VIOLATION
    THEN IF r.err
         THEN [r |-> r, exception_handled |-> exception_handled,
               instr |-> "GoNotHandled"]
         ELSE [r |-> r, exception_handled |-> exception_handled + 1,
               instr |-> "GoHandled"]
    ELSE [r |-> ExcResult(FALSE, <<>>, files, FALSE, "none", <<>>, "none"),
          exception_handled |-> exception_handled, instr |-> "GoNotHandled"]

\* exception that reports every access violation handled, whatever
\* handle_exception returned
exception_always_handled(code, first_chance, exception_address, out) ==
    LET r == handle_exception(exception_address, out) IN
    IF code = EXCEPTION_ACCESS_VIOLATION
    THEN [r |-> r, exception_handled |-> 2, instr |-> "GoHandled"]
    ELSE [r |-> ExcResult(FALSE, <<>>, files, FALSE, "none", <<>>, "none"),
          exception_handled |-> exception_handled, instr |-> "GoNotHandled"]

\* PluginEventCallbacks::exception
exception(code, first_chance, exception_address, out) ==
    LET r == handle_exception(exception_address, out) IN
    IF code = EXCEPTION_ACCESS_VIOLATION
    THEN IF r.err
         THEN [r |-> r, exception_handled |-> exception_handled,
               instr |-> "GoNotHandled"]
         ELSE [r |-> r, exception_handled |-> 2, instr |-> "GoHandled"]
    ELSE [r |-> ExcResult(FALSE, <<>>, files, FALSE, "none", <<>>, "none"),
          exception_handled |-> exception_handled, instr |-> "GoNotHandled"]

\* `argument as u32`: the low 32 bits of the u64
as_u32(argument) == argument.lo

\* change_engine_state that continues on every break notification, pending
\* continuation or not, and leaves the counter alone
change_engine_state_always(flags, argument) ==
    IF flags = DEBUG_CES_EXECUTION_STATUS /\ as_u32(argument) = DEBUG_STATUS_BREAK
    THEN [exception_handled |-> exception_handled, exec |-> TRUE]
    ELSE [exception_handled |-> exception_handled, exec |-> FALSE]

\* PluginEventCallbacks::change_engine_state
\* change_engine_state that issues the continue command and leaves the counter
change_engine_state_keep(flags, argument) ==
    LET exception_pending == exception_handled > 0 IN
    IF flags = DEBUG_CES_EXECUTION_STATUS /\ as_u32(argument) = DEBUG_STATUS_BREAK
       /\ exception_pending
    THEN [exception_handled |-> exception_handled, exec |-> TRUE]
    ELSE [exception_handled |-> exception_handled, exec |-> FALSE]

change_engine_state(flags, argument) ==
    LET exception_pending == exception_handled > 0 IN
    IF flags = DEBUG_CES_EXECUTION_STATUS /\ as_u32(argument) = DEBUG_STATUS_BREAK
       /\ exception_pending
    THEN [exception_handled |-> exception_handled - 1,
          exec |-> exception_handled > 0]
    ELSE [exception_handled |-> exception_handled, exec |-> FALSE]

-----------------------------------------------------------------------------
(* function_logger: bp.rs, cmd.rs, logger.rs *)

\* the host breakpoint an entry owns: its identity, and where it was set
DebugBreakpoint(guid, offset_expression, offset) ==
    [guid |-> guid, offset_expression |-> offset_expression, offset |-> offset]

CallbackBreakpointData(bp, function_name, function_return_hooked, callback) ==
    [bp |-> bp, function_name |-> function_name,
     function_return_hooked |-> function_return_hooked, callback |-> callback]

\* HashMap::insert: the entry under the key is replaced
MapInsert(map, key, value) ==
    [k \in DOMAIN map \cup {key} |-> IF k = key THEN value ELSE map[k]]

\* CallbackBreakpoints::insert; result: an entry was replaced
insert(reg, bp, function_name, cb) ==
    [inner |-> MapInsert(reg, bp.guid,
                         CallbackBreakpointData(bp, function_name, FALSE, cb)),
     result |-> bp.guid \in DOMAIN reg]

\* CallbackBreakpoints::uninit that gives up at the first removal that fails
\* (the entries are taken in the order of their identities)
uninit_until_failure(reg, host, failed) ==
    LET done == {g \in DOMAIN reg : \A f \in failed : g < f}
        tried == {g \in DOMAIN reg : \A f \in failed : \E h \in failed : g <= h}
    IN  [inner |-> <<>>, host_bps |-> host \ done, asked |-> tried]

\* CallbackBreakpoints::uninit: the registry is drained and the host is asked
\* to remove the breakpoint of each entry; failed: the removals that fail
uninit(reg, host, failed) ==
    [inner |-> <<>>, host_bps |-> host \ (DOMAIN reg \ failed), asked |-> DOMAIN reg]

CallResult(reg, host, instr, hook, fail) ==
    [inner |-> reg, host_bps |-> host, instr |-> instr, hook |-> hook, fail |-> fail]

\* the stored callback of entry g (monitored_func_start or monitored_func_end):
\* "ok" is Ok(Go), "err" an error of the register read or of the log line,
\* "none" that no callback ran
callback_result(g, out) ==
    IF out = "guid_panic" \/ g \notin DOMAIN inner THEN "none"
    ELSE IF out = "cb_err" THEN "err"
    ELSE "ok"

\* CallbackBreakpoints::call that answers Go for a known entry even when its
\* callback returned an error
call_go_on_error(g, ro, out) ==
    LET known == g \in DOMAIN inner
        need_to_hook == known /\ ~inner[g].function_return_hooked
        marked == IF known
                  THEN [inner EXCEPT ![g].function_return_hooked = TRUE]
                  ELSE inner
        result == IF known THEN "Go" ELSE "NoChange"
        bp == DebugBreakpoint(NewBp(host_bps), "",
                              IF out = "setoffset_err" THEN 0 ELSE ro)
        exit == CallbackBreakpointData(bp, inner[g].function_name, TRUE,
                                       "monitored_func_end")
    IN  IF out = "guid_panic"
        THEN CallResult(inner, host_bps, result, FALSE, "panic")
        ELSE IF ~need_to_hook
        THEN CallResult(marked, host_bps, result, FALSE, "none")
        ELSE IF out \in {"stack_panic", "addbp_panic"} \/ ~CanAddBp(host_bps)
        THEN CallResult(marked, host_bps, result, TRUE, "panic")
        ELSE IF out = "guid_exit_panic"
        THEN CallResult(marked, host_bps \cup {bp.guid}, result, TRUE, "panic")
        ELSE CallResult(MapInsert(marked, bp.guid, exit), host_bps \cup {bp.guid},
                        result, TRUE,
                        IF out = "setoffset_err" THEN "setoffset" ELSE "none")

\* CallbackBreakpoints::call without the first-time gate: every fire of a
\* known entry installs an exit hook
call_rehook(g, ro, out) ==
    LET known == g \in DOMAIN inner
        need_to_hook == known
        marked == IF known
                  THEN [inner EXCEPT ![g].function_return_hooked = TRUE]
                  ELSE inner
        result == IF known /\ out # "cb_err" THEN "Go" ELSE "NoChange"
        bp == DebugBreakpoint(NewBp(host_bps), "",
                              IF out = "setoffset_err" THEN 0 ELSE ro)
        exit == CallbackBreakpointData(bp, inner[g].function_name, TRUE,
                                       "monitored_func_end")
    IN  IF out = "guid_panic"
        THEN CallResult(inner, host_bps, result, FALSE, "panic")
        ELSE IF ~need_to_hook
        THEN CallResult(marked, host_bps, result, FALSE, "none")
        ELSE IF out \in {"stack_panic", "addbp_panic"} \/ ~CanAddBp(host_bps)
        THEN CallResult(marked, host_bps, result, TRUE, "panic")
        ELSE IF out = "guid_exit_panic"
        THEN CallResult(marked, host_bps \cup {bp.guid}, result, TRUE, "panic")
        ELSE CallResult(MapInsert(marked, bp.guid, exit), host_bps \cup {bp.guid},
                        result, TRUE,
                        IF out = "setoffset_err" THEN "setoffset" ELSE "none")

\* CallbackBreakpoints::call that gives the exit entry the callback of the
\* enter entry
call_exit_as_enter(g, ro, out) ==
    LET known == g \in DOMAIN inner
        need_to_hook == known /\ ~inner[g].function_return_hooked
        marked == IF known
                  THEN [inner EXCEPT ![g].function_return_hooked = TRUE]
                  ELSE inner
        \* monitored_func_start and monitored_func_end: Go, or an error
        result == IF callback_result(g, out) = "ok" THEN "Go" ELSE "NoChange"
        bp == DebugBreakpoint(NewBp(host_bps), "",
                              IF out = "setoffset_err" THEN 0 ELSE ro)
        exit == CallbackBreakpointData(bp, inner[g].function_name, TRUE,
                                       "monitored_func_start")
    IN  IF out = "guid_panic"
        THEN CallResult(inner, host_bps, result, FALSE, "panic")
        ELSE IF ~need_to_hook
        THEN CallResult(marked, host_bps, result, FALSE, "none")
        ELSE IF out \in {"stack_panic", "addbp_panic"} \/ ~CanAddBp(host_bps)
        THEN CallResult(marked, host_bps, result, TRUE, "panic")
        ELSE IF out = "guid_exit_panic"
        THEN CallResult(marked, host_bps \cup {bp.guid}, result, TRUE, "panic")
        ELSE CallResult(MapInsert(marked, bp.guid, exit), host_bps \cup {bp.guid},
                        result, TRUE,
                        IF out = "setoffset_err" THEN "setoffset" ELSE "none")

\* CallbackBreakpoints::call for the breakpoint g, hit with return address ro
call(g, ro, out) ==
    LET known == g \in DOMAIN inner
        need_to_hook == known /\ ~inner[g].function_return_hooked
        marked == IF known
                  THEN [inner EXCEPT ![g].function_return_hooked = TRUE]
                  ELSE inner
        \* monitored_func_start and monitored_func_end: Go, or an error
        result == IF callback_result(g, out) = "ok" THEN "Go" ELSE "NoChange"
        bp == DebugBreakpoint(NewBp(host_bps), "",
                              IF out = "setoffset_err" THEN 0 ELSE ro)
        exit == CallbackBreakpointData(bp, inner[g].function_name, TRUE,
                                       "monitored_func_end")
    IN  IF out = "guid_panic"
        THEN CallResult(inner, host_bps, result, FALSE, "panic")
        ELSE IF ~need_to_hook
        THEN CallResult(marked, host_bps, result, FALSE, "none")
        ELSE IF out \in {"stack_panic", "addbp_panic"} \/ ~CanAddBp(host_bps)
        THEN CallResult(marked, host_bps, result, TRUE, "panic")
        ELSE IF out = "guid_exit_panic"
        THEN CallResult(marked, host_bps \cup {bp.guid}, result, TRUE, "panic")
        ELSE CallResult(MapInsert(marked, bp.guid, exit), host_bps \cup {bp.guid},
                        result, TRUE,
                        IF out = "setoffset_err" THEN "setoffset" ELSE "none")

\* cmd.rs log_function; err is the Result it returns
log_function(function_name, out) ==
    LET bp == DebugBreakpoint(NewBp(host_bps), function_name, 0)
        Fail(host) == [err |-> TRUE, inner |-> inner, host_bps |-> host]
    IN  IF out = "args_err" \/ ~callbacks THEN Fail(host_bps)
        ELSE IF out = "addbp_err" \/ ~CanAddBp(host_bps) THEN Fail(host_bps)
        ELSE IF out \in {"expr_err", "flags_err"} THEN Fail(host_bps \cup {bp.guid})
        ELSE [err |-> FALSE,
              inner |-> insert(inner, bp, function_name, "monitored_func_start").inner,
              host_bps |-> host_bps \cup {bp.guid}]

\* logger.rs init_accessible: the callbacks are registered and CLIENT is set
init_accessible(out) ==
    IF out \in {"log_err", "cb_err"} THEN [err |-> TRUE, callbacks |-> callbacks]
    ELSE [err |-> FALSE, callbacks |-> TRUE]

-----------------------------------------------------------------------------
(* Notifications and commands: the actions *)

NoEvent ==
    [ev |-> "none", in |-> <<>>, fail |-> "none", instr |-> "none", r9 |-> 0,
     found |-> <<>>, dump |-> "none", protect |-> <<>>, handle |-> FALSE,
     exec |-> FALSE, hook |-> FALSE, callback |-> "none", asked |-> {}]

StartOuts == {"ok", "args_err", "bp1_err", "bp1_set_err", "bp2_err",
              "bp2_set_err", "cb_err"}
BpOuts == {"ok", "regs_err", "stack_panic", "addbp_panic", "setreg_err"}
ExcOuts == {"ok", "pid_err", "open_err", "invalid_handle", "path_err", "read_err",
            "create_err", "write_err", "log_err", "protect_err", "close_err"}
\* the host calls that can fail while this exception is handled
ExcOutsAt(code, a) ==
    IF code = EXCEPTION_ACCESS_VIOLATION /\ get_allocation(allocations, a) # <<>>
    THEN ExcOuts ELSE {"ok"}
Flags == {DEBUG_CES_EXECUTION_STATUS, 2}
\* DEBUG_STATUS_BREAK, DEBUG_STATUS_GO, DEBUG_STATUS_BREAK | DEBUG_STATUS_INSIDE_WAIT
Arguments == {[hi |-> 0, lo |-> 6], [hi |-> 0, lo |-> 1], [hi |-> 1, lo |-> 6]}

Context(rax, rcx, rdx, r9, rip, ro) ==
    [rax |-> rax, rcx |-> rcx, rdx |-> rdx, r9 |-> r9, rip |-> rip, ro |-> ro]

\* the inputs of an environment: what the target passes to VirtualAlloc and
\* VirtualFree, where it calls from, what the allocator returns, where it faults
Env(sizes, prots, sites, vals, faddrs, fsizes, faults, max_allocs) ==
    [sizes |-> sizes, prots |-> prots, sites |-> sites, vals |-> vals,
     faddrs |-> faddrs, fsizes |-> fsizes, faults |-> faults,
     max_allocs |-> max_allocs]

\* the register contexts in which breakpoint g can be hit
Contexts(env, g) ==
    LET function == get_breakpoint_type(g) IN
    IF function = "VirtualAllocEnter"
    THEN {Context(0, 0, rdx, r9, 0, ro) :
            rdx \in env.sizes, r9 \in env.prots, ro \in env.sites}
    ELSE IF function = "VirtualAllocExit"
    THEN {Context(rax, 0, 0, 0, breakpoints[g].address, 0) : rax \in env.vals}
    ELSE IF function = "VirtualFree"
    THEN {Context(0, rcx, rdx, 0, 0, 0) : rcx \in env.faddrs, rdx \in env.fsizes}
    ELSE {Context(0, 0, 0, 0, 0, 0)}

\* The end-to-end scenario: VirtualAlloc(0x1000, PAGE_EXECUTE_READWRITE) is
\* entered with an empty table and no dump files (1), returns 0x7ff00000 (2),
\* the target faults at 0x7ff00010 (3), VirtualFree(0x7ff00000, 0x1000) (4);
\* every host call succeeds. Any other notification ends the scenario (0).
ScenAfterBreakpoint(g, ctx, fail) ==
    LET function == get_breakpoint_type(g) IN
    IF function = "VirtualAllocEnter" /\ fail = "none" /\ allocations = <<>>
       /\ files = {} /\ ctx.rdx = 4096 /\ ctx.r9 = PAGE_EXECUTE_READWRITE
    THEN 1
    ELSE IF function = "VirtualAllocExit" /\ fail = "none" /\ scen = 1
            /\ ctx.rip = allocations[1].function_return /\ ctx.rax = 2146435072
    THEN 2
    ELSE IF function = "VirtualFree" /\ fail = "none" /\ scen = 3
            /\ ctx.rcx = 2146435072 /\ ctx.rdx = 4096
    THEN 4
    ELSE 0

ScenAfterException(code, first_chance, exception_address, fail) ==
    IF scen = 2 /\ code = EXCEPTION_ACCESS_VIOLATION /\ first_chance = 1
       /\ exception_address = 2146435088 /\ fail = "none"
    THEN 3 ELSE 0

Init ==
    /\ directory = ""
    /\ breakpoints = <<>>
    /\ allocations = <<>>
    /\ callbacks = FALSE
    /\ exception_handled = 0
    /\ host_bps = {}
    /\ files = {}
    /\ inner = <<>>
    /\ last = NoEvent
    /\ dump_calls = {}
    /\ scen = 0

\* the start_monitor command (also run by DebugExtensionInitialize)
StartMonitor(dir, out) ==
    \E s \in {start_monitor(dir, out)} :
    /\ directory' = s.directory
    /\ breakpoints' = s.breakpoints
    /\ host_bps' = s.host_bps
    /\ callbacks' = s.callbacks
    /\ exception_handled' = s.exception_handled
    /\ last' = [NoEvent EXCEPT !.ev = "start", !.in = <<dir>>,
                               !.fail = IF s.err THEN "start" ELSE "none"]
    /\ scen' = 0
    /\ UNCHANGED <<allocations, files, inner, dump_calls>>

\* DbgEventCallbacks::Breakpoint: a panic of the callback is caught
Breakpoint(max_allocs, g, ctx, out) ==
    \E b \in {breakpoint(g, ctx, out)} :
    /\ callbacks
    /\ Len(b.r.allocations) <= max_allocs
    /\ breakpoints' = b.r.breakpoints
    /\ allocations' = b.r.allocations
    /\ host_bps' = b.r.host_bps
    /\ last' = [NoEvent EXCEPT
                  !.ev = get_breakpoint_type(g),
                  !.in = ctx,
                  !.fail = b.r.fail,
                  !.r9 = b.r.r9,
                  !.instr = IF b.r.fail = "panic" THEN "GoNotHandled" ELSE b.instr]
    /\ scen' = ScenAfterBreakpoint(g, ctx, b.r.fail)
    /\ UNCHANGED <<directory, callbacks, exception_handled, files, inner,
                   dump_calls>>

EnterFire(env) ==
    \E g \in host_bps, out \in BpOuts :
        /\ get_breakpoint_type(g) = "VirtualAllocEnter"
        /\ \E ctx \in Contexts(env, g) : Breakpoint(env.max_allocs, g, ctx, out)

ExitFire(env) ==
    \E g \in host_bps, out \in {"ok", "regs_err"} :
        /\ get_breakpoint_type(g) = "VirtualAllocExit"
        /\ \E ctx \in Contexts(env, g) : Breakpoint(env.max_allocs, g, ctx, out)

FreeFire(env) ==
    \E g \in host_bps, out \in {"ok", "regs_err"} :
        /\ get_breakpoint_type(g) = "VirtualFree"
        /\ \E ctx \in Contexts(env, g) : Breakpoint(env.max_allocs, g, ctx, out)

ForeignFire(env) ==
    \E g \in host_bps \cup ForeignBps :
        /\ get_breakpoint_type(g) = "None"
        /\ \E ctx \in Contexts(env, g) : Breakpoint(env.max_allocs, g, ctx, "ok")

\* DbgEventCallbacks::Exception
Exception(code, first_chance, exception_address, out) ==
    \E e \in {exception(code, first_chance, exception_address, out)} :
    /\ callbacks
    /\ files' = e.r.files
    /\ exception_handled' = e.exception_handled
    /\ last' = [NoEvent EXCEPT
                  !.ev = "exception",
                  !.in = <<code, first_chance, exception_address>>,
                  !.fail = e.r.fail,
                  !.dump = e.r.dump,
                  !.found = e.r.found,
                  !.protect = e.r.protect,
                  !.handle = e.r.handle,
                  !.instr = e.instr]
    /\ dump_calls' = IF e.r.dump # "none"
                     THEN dump_calls \cup {get_dump_file(directory, e.r.found[1])}
                     ELSE dump_calls
    /\ scen' = ScenAfterException(code, first_chance, exception_address, e.r.fail)
    /\ UNCHANGED <<directory, breakpoints, allocations, callbacks, host_bps,
                   inner>>

\* DbgEventCallbacks::ChangeEngineState
ChangeEngineState(flags, argument) ==
    \E c \in {change_engine_state(flags, argument)} :
    /\ callbacks
    /\ exception_handled' = c.exception_handled
    /\ last' = [NoEvent EXCEPT !.ev = "state", !.in = <<flags, argument>>,
                               !.exec = c.exec]
    /\ scen' = 0
    /\ UNCHANGED <<directory, breakpoints, allocations, callbacks, host_bps,
                   files, inner, dump_calls>>

ExceptionRaised(env) ==
    \E code \in ExcCodes, fc \in FirstChance, a \in env.faults :
        \E out \in ExcOutsAt(code, a) : Exception(code, fc, a, out)

EngineStateChanged ==
    \E flags \in Flags, argument \in Arguments : ChangeEngineState(flags, argument)

StartCommand(outs) == \E dir \in Dirs, out \in outs : StartMonitor(dir, out)

Functions == {"kernel32!VirtualAlloc", "kernel32!Sleep"}
LogOuts == {"ok", "args_err", "addbp_err", "expr_err", "flags_err"}
CallOuts == {"ok", "cb_err", "guid_panic", "stack_panic", "addbp_panic",
             "guid_exit_panic", "setoffset_err"}

\* function_logger: DebugExtensionInitialize, run once when the host loads it
InitLogger(out) ==
    \E i \in {init_accessible(out)} :
    /\ last = NoEvent
    /\ callbacks' = i.callbacks
    /\ last' = [NoEvent EXCEPT !.ev = "init",
                               !.fail = IF i.err THEN "init" ELSE "none"]
    /\ UNCHANGED <<directory, breakpoints, allocations, exception_handled,
                   host_bps, files, inner, dump_calls, scen>>

\* function_logger: the lf / logfunction command
LogFunction(function_name, out) ==
    \E l \in {log_function(function_name, out)} :
    /\ inner' = l.inner
    /\ host_bps' = l.host_bps
    /\ last' = [NoEvent EXCEPT !.ev = "log_function", !.in = <<function_name>>,
                               !.fail = IF l.err THEN "log_function" ELSE "none"]
    /\ UNCHANGED <<directory, breakpoints, allocations, callbacks,
                   exception_handled, files, dump_calls, scen>>

\* function_logger: DbgEventCallbacks::Breakpoint, a panic of call is caught
LoggerBreakpoint(g, ro, out) ==
    \E c \in {call(g, ro, out)} :
    /\ callbacks
    /\ inner' = c.inner
    /\ host_bps' = c.host_bps
    /\ last' = [NoEvent EXCEPT
                  !.ev = "call",
                  !.in = <<g, ro>>,
                  !.fail = c.fail,
                  !.hook = c.hook,
                  !.callback = callback_result(g, out),
                  !.instr = IF c.fail = "panic" THEN "GoNotHandled" ELSE c.instr]
    /\ UNCHANGED <<directory, breakpoints, allocations, callbacks,
                   exception_handled, files, dump_calls, scen>>

\* function_logger: DebugExtensionUninitialize, when CLIENT is set
Uninit ==
    \E failed \in SUBSET DOMAIN inner :
    \E u \in {uninit(inner, host_bps, failed)} :
    /\ callbacks
    /\ inner' = u.inner
    /\ host_bps' = u.host_bps
    /\ last' = [NoEvent EXCEPT !.ev = "uninit", !.in = <<failed>>,
                               !.asked = u.asked]
    /\ UNCHANGED <<directory, breakpoints, allocations, callbacks,
                   exception_handled, files, dump_calls, scen>>

LoggerInit == \E out \in {"ok", "log_err", "cb_err"} : InitLogger(out)

LoggerCommand ==
    \E function_name \in Functions, out \in LogOuts : LogFunction(function_name, out)

\* a breakpoint of the host is hit: an enter breakpoint from a call site, any
\* other breakpoint anywhere
LoggerFire ==
    \E g \in host_bps \cup ForeignBps, out \in CallOuts :
        \E ro \in (IF g \in DOMAIN inner /\ inner[g].callback = "monitored_func_start"
                   THEN RetSites ELSE {0}) :
            LoggerBreakpoint(g, ro, out)

\* the whole dispatcher, for a target that calls the allocator from one site
CoreEnv ==
    Env({4096}, {4, 64}, {4198405}, {0, 2146435072}, {0, 2146435072}, {0, 4096},
        {2146435071, 2146435088, 2146439168, 2146439169}, MaxAllocs)

\* the breakpoint half of the dispatcher, for a target that never faults
HookEnv ==
    Env(Sizes, Prots, RetSites, RetVals, FreeAddrs, FreeSizes, {}, MaxRecords)

\* the allocation table, for a target that allocates regions of two sizes
TableEnv ==
    Env({4096, 8192}, {PAGE_EXECUTE_READWRITE}, RetSites, {2146435072},
        {0, 2146435072, 2146443264}, {0, 4096, 8192}, {}, MaxTable)

\* in Spec the start command is given until monitoring has started, and the
\* host creates the two breakpoints it asks for
Next ==
    \/ ~callbacks /\ StartCommand({"ok", "args_err", "cb_err"})
    \/ EnterFire(CoreEnv)
    \/ ExitFire(CoreEnv)
    \/ FreeFire(CoreEnv)
    \/ ForeignFire(CoreEnv)
    \/ ExceptionRaised(CoreEnv)
    \/ EngineStateChanged

NextHooks ==
    \/ StartCommand(StartOuts)
    \/ EnterFire(HookEnv)
    \/ ExitFire(HookEnv)
    \/ FreeFire(HookEnv)
    \/ ForeignFire(HookEnv)

\* Drop for MemoryRegions: a client is created (the unwrap panics when that
\* fails), the registry is drained and the host is asked to remove each
\* breakpoint, the result of each removal being discarded
drop(regs, host, failed, out) ==
    IF out = "create_panic"
    THEN [breakpoints |-> regs, host_bps |-> host, asked |-> {}, fail |-> "panic"]
    ELSE [breakpoints |-> <<>>, host_bps |-> host \ (DOMAIN regs \ failed),
          asked |-> DOMAIN regs, fail |-> "none"]

\* the extension is loaded: the host has not called DebugExtensionUninitialize
\* and the thread that owns MEMORY_REGIONS has not exited
Loaded == last.ev \notin {"uninitialize", "drop"}

\* DebugExtensionUninitialize of the unpacker: the guard of a mutable borrow
\* is taken and dropped; the registry and the host's breakpoints stay
Uninitialize ==
    /\ last' = [NoEvent EXCEPT !.ev = "uninitialize"]
    /\ UNCHANGED <<directory, breakpoints, allocations, callbacks,
                   exception_handled, host_bps, files, inner, dump_calls, scen>>

\* the thread that owns MEMORY_REGIONS exits and the destructor of the
\* thread-local runs
Drop ==
    \E out \in {"ok", "create_panic"}, failed \in SUBSET DOMAIN breakpoints :
    \E d \in {drop(breakpoints, host_bps, failed, out)} :
    /\ last.ev # "drop"
    /\ breakpoints' = d.breakpoints
    /\ host_bps' = d.host_bps
    /\ last' = [NoEvent EXCEPT !.ev = "drop", !.in = <<failed>>,
                               !.asked = d.asked, !.fail = d.fail]
    /\ UNCHANGED <<directory, allocations, callbacks, exception_handled,
                   files, inner, dump_calls, scen>>

\* a target that allocates executable memory, up to the unload of the extension
TeardownEnv ==
    Env({4096}, {PAGE_EXECUTE_READWRITE}, RetSites, {2146435072}, {}, {}, {}, 1)

NextTeardown ==
    \/ Loaded /\ ~callbacks /\ StartCommand(StartOuts)
    \/ Loaded /\ EnterFire(TeardownEnv)
    \/ Loaded /\ ExitFire(TeardownEnv)
    \/ Loaded /\ Uninitialize
    \/ Drop

\* the identities with which the registries are asked to install an entry
InstallIds == {1, 2}

\* CallbackBreakpoints::insert applied to a breakpoint of identity g
InstallCallback ==
    \E g \in InstallIds, function_name \in Functions :
    \E i \in {insert(inner, DebugBreakpoint(g, function_name, 0), function_name,
                     "monitored_func_start")} :
    /\ inner' = i.inner
    /\ host_bps' = host_bps \cup {g}
    /\ last' = [NoEvent EXCEPT !.ev = "insert",
                               !.in = <<g, function_name, i.result>>]
    /\ UNCHANGED <<directory, breakpoints, allocations, callbacks,
                   exception_handled, files, dump_calls, scen>>

\* MemoryRegions::add_breakpoint applied to a breakpoint of identity g
InstallHook ==
    \E g \in InstallIds, address \in {0} \cup RetSites,
       function \in {"VirtualAllocEnter", "VirtualAllocExit", "VirtualFree"} :
    /\ breakpoints' = add_breakpoint(breakpoints, g, address, function)
    /\ host_bps' = host_bps \cup {g}
    /\ last' = [NoEvent EXCEPT !.ev = "add_breakpoint",
                               !.in = <<g, address, function>>]
    /\ UNCHANGED <<directory, allocations, callbacks, exception_handled,
                   files, inner, dump_calls, scen>>

NextInstall ==
    \/ InstallCallback
    \/ InstallHook

\* u64 values at the edges of the range: 0, 0x1000, 0x2000, 0x7ff00000,
\* 2^64 - 0x1000, 2^64 - 1
WideSizes == {U64(0, 0, 0, 4096), U64(0, 0, 0, 8192), U64(65535, 65535, 65535, 65535)}
WideBases == {U64(0, 0, 32752, 0), U64(65535, 65535, 65535, 61440)}
WideProbes == {U64(0, 0, 0, 8192), U64(0, 0, 32752, 16), U64(65535, 65535, 65535, 61456),
               U64(65535, 65535, 65535, 65535)}

\* the tables of resolved records over these values
WideTables ==
    LET Records == {AllocatedMemory(size, PAGE_EXECUTE_READWRITE, address, 4198405) :
                        size \in WideSizes, address \in WideBases}
    IN  {<<>>} \cup {<<a>> : a \in Records} \cup {<<a, b>> : a \in Records, b \in Records}

InitLookup ==
    /\ directory = ""
    /\ breakpoints = <<>>
    /\ allocations \in WideTables
    /\ callbacks = FALSE
    /\ exception_handled = 0
    /\ host_bps = {}
    /\ files = {}
    /\ inner = <<>>
    /\ last = NoEvent
    /\ dump_calls = {}
    /\ scen = 0

\* get_allocation applied to the table, in a build with or without overflow
\* checks
Lookup ==
    \E address \in WideProbes, overflow_checks \in BOOLEAN :
    \E l \in {get_allocation_u64(allocations, address, overflow_checks)} :
    /\ last' = [NoEvent EXCEPT !.ev = "get_allocation",
                               !.in = <<address, overflow_checks>>,
                               !.found = l.found, !.fail = l.fail]
    /\ UNCHANGED <<directory, breakpoints, allocations, callbacks,
                   exception_handled, host_bps, files, inner, dump_calls, scen>>

NextLookup == Lookup

\* a target that also asks for allocations of size 0
ResolveEnv ==
    Env({0, 4096}, {PAGE_READWRITE}, RetSites, {0, 2146435072}, {0, 2146435072},
        {0}, {}, MaxTable)

NextResolve ==
    \/ ~callbacks /\ StartCommand({"ok"})
    \/ EnterFire(ResolveEnv)
    \/ ExitFire(ResolveEnv)
    \/ FreeFire(ResolveEnv)

\* events.rs: DebugInstruction
DebugInstructions ==
    {"Break", "StepInto", "StepBranch", "StepOver", "GoNotHandled", "GoHandled",
     "Go", "IgnoreEvent", "Restart", "NoChange"}

\* what a callback of the extension does: it returns an instruction or panics
CallbackOutcomes == DebugInstructions \cup {"panic"}

\* Breakpoint / Exception without catch_unwind: the panic unwinds into the host
instruction_uncaught(res) ==
    IF res = "panic" THEN [instr |-> "none", fail |-> "abort"]
    ELSE [instr |-> res, fail |-> "none"]

\* DbgEventCallbacks::Breakpoint and ::Exception: the callback runs under
\* catch_unwind; its instruction is handed back, GoNotHandled when it panicked
instruction(res) ==
    IF res = "panic" THEN [instr |-> "GoNotHandled", fail |-> "panic"]
    ELSE [instr |-> res, fail |-> "none"]

\* DbgEventCallbacks::ChangeEngineState: the callback runs under catch_unwind
\* and Ok(()) is returned whatever it did
engine_state(res) ==
    [instr |-> "none", fail |-> IF res = "panic" THEN "panic" ELSE "none"]

DeliverBreakpoint ==
    \E g \in BpIds \cup ForeignBps, res \in CallbackOutcomes :
    \E i \in {instruction(res)} :
    /\ last' = [NoEvent EXCEPT !.ev = "Breakpoint", !.in = <<res, g>>,
                               !.instr = i.instr, !.fail = i.fail]
    /\ UNCHANGED <<directory, breakpoints, allocations, callbacks,
                   exception_handled, host_bps, files, inner, dump_calls, scen>>

DeliverException ==
    \E code \in ExcCodes, fc \in FirstChance, res \in CallbackOutcomes :
    \E i \in {instruction(res)} :
    /\ last' = [NoEvent EXCEPT !.ev = "Exception", !.in = <<res, code, fc>>,
                               !.instr = i.instr, !.fail = i.fail]
    /\ UNCHANGED <<directory, breakpoints, allocations, callbacks,
                   exception_handled, host_bps, files, inner, dump_calls, scen>>

DeliverEngineState ==
    \E flags \in Flags, argument \in Arguments, res \in {"returned", "panic"} :
    \E i \in {engine_state(res)} :
    /\ last' = [NoEvent EXCEPT !.ev = "ChangeEngineState",
                               !.in = <<res, flags, argument>>,
                               !.instr = i.instr, !.fail = i.fail]
    /\ UNCHANGED <<directory, breakpoints, allocations, callbacks,
                   exception_handled, host_bps, files, inner, dump_calls, scen>>

NextEvents ==
    \/ DeliverBreakpoint
    \/ DeliverException
    \/ DeliverEngineState

NextTable ==
    \/ ~callbacks /\ StartCommand({"ok"})
    \/ EnterFire(TableEnv)
    \/ ExitFire(TableEnv)
    \/ FreeFire(TableEnv)

NextLogger ==
    \/ LoggerInit
    \/ LoggerCommand
    \/ LoggerFire
    \/ Uninit

Spec == Init /\ [][Next]_vars

SpecHooks == Init /\ [][NextHooks]_vars

SpecLogger == Init /\ [][NextLogger]_vars

SpecTable == Init /\ [][NextTable]_vars

SpecTeardown == Init /\ [][NextTeardown]_vars

SpecInstall == Init /\ [][NextInstall]_vars

SpecLookup == InitLookup /\ [][NextLookup]_vars

SpecResolve == Init /\ [][NextResolve]_vars

SpecEvents == Init /\ [][NextEvents]_vars

-----------------------------------------------------------------------------
(* The allocation table and the protection flip: properties *)

\* a record is resolved once VirtualAlloc_exit stored the returned base address
Resolved(a) == a.address # 0

\* address lies in the half-open range [base, base + size) of the record
Contains(a, address) ==
    Resolved(a) /\ a.address <= address /\ address < a.address + a.size

InRegion(allocs, address) ==
    \E i \in DOMAIN allocs : Contains(allocs[i], address)

\* 0x7ff00000 - 1, the base, base + 0x10, the last byte, the end, past the end
Probes == {2146435071, 2146435072, 2146435088, 2146439167, 2146439168, 2146439169}

\* C1: when every record of the table is resolved, the lookup of an address
\* returns a record exactly when the address lies in the half-open range
\* [base, base + size) of some record, and the record returned contains it.
C1_LookupContainment ==
    (\A i \in DOMAIN allocations : Resolved(allocations[i])) =>
        \A address \in Probes :
            LET found == get_allocation(allocations, address) IN
            IF InRegion(allocations, address)
            THEN found # <<>> /\ Contains(found[1], address)
            ELSE found = <<>>

\* C2: the end-to-end scenario. After the enter event r9 holds PAGE_READWRITE;
\* after the exit event the only record is [0x7ff00000, 0x7ff01000); after the
\* fault at 0x7ff00010 the region was dumped to the file named from
\* (0x7ff00000, 0x1000), its protection was restored to 0x40 and the event was
\* answered handled; after the free the table is empty and the lookup fails.
C2_EndToEndScenario ==
    /\ scen = 1 => last.r9 = PAGE_READWRITE
    /\ scen = 2 => /\ Len(allocations) = 1
                   /\ allocations[1].address = 2146435072
                   /\ allocations[1].size = 4096
    /\ scen = 3 => /\ last.dump = "written"
                   /\ get_dump_file(directory, allocations[1]) \in files
                   /\ last.protect = <<2146435072, 4096, PAGE_EXECUTE_READWRITE>>
                   /\ last.instr = "GoHandled"
    /\ scen = 4 => /\ allocations = <<>>
                   /\ get_allocation(allocations, 2146435088) = <<>>

\* C3: an access violation whose address lies in no tracked region is answered
\* not-handled, leaves the auto-continue counter unchanged, writes no dump and
\* changes no protection.
C3_UntrackedFaultUnhandled ==
    [][(/\ last'.ev = "exception"
        /\ last'.in[1] = EXCEPTION_ACCESS_VIOLATION
        /\ ~InRegion(allocations, last'.in[3]))
       => (/\ last'.instr = "GoNotHandled"
           /\ exception_handled' = exception_handled
           /\ files' = files
           /\ last'.dump = "none"
           /\ last'.protect = <<>>)]_vars

\* C4: once a record is resolved, no step that keeps the record in the table
\* changes its base address.
C4_ResolvedAddressStable ==
    [][Len(allocations') >= Len(allocations) =>
        \A i \in DOMAIN allocations :
            Resolved(allocations[i]) =>
                allocations'[i].address = allocations[i].address]_vars

\* the base protection is the low byte of the protection DWORD
HasWrite(protection) == (protection % 256) \in {4, 8, 64, 128}
HasExecute(protection) == (protection % 256) \in {16, 32, 64, 128}

\* C5: when the enter handler runs with every host call succeeding, a request
\* for write and execute leaves r9 with write and without execute, and any
\* other request leaves r9 as it was.
C5_ProtectionFlip ==
    (last.ev = "VirtualAllocEnter" /\ last.fail = "none") =>
        IF HasWrite(last.in.r9) /\ HasExecute(last.in.r9)
        THEN HasWrite(last.r9) /\ ~HasExecute(last.r9)
        ELSE last.r9 = last.in.r9

\* C6: whatever path handle_exception returns on, the process handle it
\* opened has been closed.
C6_HandleReleased == last.ev = "exception" => ~last.handle

\* C7: an exception that is not an access violation, or not first-chance, is
\* answered not-handled and changes neither the counter, the table nor the
\* dump files.
C7_OnlyFirstChanceAccessViolation ==
    [][(/\ last'.ev = "exception"
        /\ (last'.in[1] # EXCEPTION_ACCESS_VIOLATION \/ last'.in[2] # 1))
       => (/\ last'.instr = "GoNotHandled"
           /\ exception_handled' = exception_handled
           /\ allocations' = allocations
           /\ files' = files)]_vars

\* the file dump_dynamic_code uses for the record the last fault matched
LastDumpFile == get_dump_file(directory, last.found[1])

\* a dump that neither read the region nor wrote a file
NoReadNoWrite(dump) == dump \in {"exists", "path_failed"}

\* C9 (as stated): when the dump is invoked for a region it was invoked for
\* before, the invocation reads no memory and writes no file.
C9_SecondDumpSkips ==
    [][(/\ last'.ev = "exception"
        /\ last'.dump # "none"
        /\ get_dump_file(directory, last'.found[1]) \in dump_calls)
       => (NoReadNoWrite(last'.dump) /\ files' = files)]_vars

\* C9 (amended): when the dump is invoked for a region whose file exists, the
\* invocation reads no memory, writes no file, and the existing file is not an
\* error of the dump; when it is invoked for a region whose file does not
\* exist and every host call succeeds, it reads the region and writes the file.
C9_ExistingDumpSkipped ==
    [][(last'.ev = "exception" /\ last'.dump # "none") =>
        IF get_dump_file(directory, last'.found[1]) \in files
        THEN /\ NoReadNoWrite(last'.dump)
             /\ files' = files
             /\ (last'.dump = "exists" => last'.fail # "dump")
        ELSE last'.fail = "none" =>
                /\ last'.dump = "written"
                /\ files' = files \cup {get_dump_file(directory, last'.found[1])}]_vars

\* a second dump of a resolved region found the file of the first and skipped
C9_Witness ==
    /\ last.ev = "exception"
    /\ last.dump = "exists"
    /\ Resolved(last.found[1])
    /\ LastDumpFile \in dump_calls
    /\ last.instr = "GoHandled"

\* C10: an exit event whose return address is the key of no record leaves the
\* allocation table as it was.
C10_UnknownKeyNoChange ==
    [][(/\ last'.ev = "VirtualAllocExit"
        /\ \A i \in DOMAIN allocations :
              allocations[i].function_return # last'.in.rip)
       => allocations' = allocations]_vars

\* the exit handler ran for a key that no record of a non-empty table has
C10_Witness ==
    /\ last.ev = "VirtualAllocExit"
    /\ last.fail = "none"
    /\ allocations # <<>>
    /\ \A i \in DOMAIN allocations : allocations[i].function_return # last.in.rip

-----------------------------------------------------------------------------
(* The hook registry of the function logger: properties *)

Enters(reg) == {g \in DOMAIN reg : reg[g].callback = "monitored_func_start"}

\* the exit entries installed for the function of the enter entry g
ExitsOf(reg, g) ==
    {x \in DOMAIN reg : /\ reg[x].callback = "monitored_func_end"
                        /\ reg[x].function_name = reg[g].function_name}

\* g is the only enter entry of its function, so every exit entry of the
\* function was installed by a fire of g
OnlyEntryFor(reg, g) ==
    \A h \in Enters(reg) : reg[h].function_name = reg[g].function_name => h = g

-----------------------------------------------------------------------------
(* The allocation table: VirtualFree *)

\* the indices of the records whose base address is address
RecordsAt(allocs, address) == {k \in DOMAIN allocs : allocs[k].address = address}

\* C11: VirtualFree(addr, 0) removes a record whose base address is addr
\* whatever its size; VirtualFree(addr, s) with s # 0 different from the size of
\* every record at addr, or with addr the base address of no record, leaves
\* the table unchanged.
C11_EndSemantics ==
    [][(last'.ev = "VirtualFree" /\ last'.fail = "none") =>
        LET addr == last'.in.rcx
            s == last'.in.rdx
            at == RecordsAt(allocations, addr)
        IN  /\ (s = 0 /\ at # {}) =>
                \E k \in at : allocations' = RemoveAt(allocations, k)
            /\ (s # 0 /\ \A k \in at : allocations[k].size # s) =>
                allocations' = allocations
            /\ at = {} => allocations' = allocations]_vars

\* VirtualFree(addr, 0) ran and a record at addr of size 0x2000 is still in the
\* table: the call removed the record at addr that preceded it
C11_Witness ==
    /\ last.ev = "VirtualFree"
    /\ last.fail = "none"
    /\ last.in.rdx = 0
    /\ last.in.rcx # 0
    /\ \E k \in RecordsAt(allocations, last.in.rcx) : allocations[k].size = 8192

-----------------------------------------------------------------------------
(* The fault response: properties *)

\* the last event was a first-chance access violation
LastIsFault ==
    /\ last.ev = "exception"
    /\ last.in[1] = EXCEPTION_ACCESS_VIOLATION
    /\ last.in[2] = 1

\* C12: after a first-chance access violation inside a tracked region, handled
\* with every host call succeeding, VirtualProtectEx was called on that region
\* with the protection stored in its record, and the answer is GoHandled.
C12_ProtectionRestored ==
    (LastIsFault /\ last.fail = "none" /\ InRegion(allocations, last.in[3])) =>
        /\ \E k \in DOMAIN allocations :
              /\ Contains(allocations[k], last.in[3])
              /\ last.protect = <<allocations[k].address, allocations[k].size,
                                  allocations[k].protection>>
        /\ last.instr = "GoHandled"

\* C13: when opening the process, dumping the region or restoring the
\* protection fails while a fault is handled, the answer is GoNotHandled and
\* the counter keeps its value.
C13_FailureUnhandled ==
    [][(last'.ev = "exception" /\ last'.fail \in {"open", "dump", "protect"}) =>
        /\ last'.instr = "GoNotHandled"
        /\ exception_handled' = exception_handled]_vars

\* VirtualProtectEx failed for a resolved record while a continuation was
\* pending, and the fault was answered GoNotHandled
C13_Witness ==
    /\ LastIsFault
    /\ last.fail = "protect"
    /\ Resolved(last.found[1])
    /\ last.instr = "GoNotHandled"
    /\ exception_handled = 1

\* C14 (as stated): a fault handled for a record the lookup returned adds one
\* to the counter and is answered GoHandled.
C14_CounterIncremented ==
    [][(last'.ev = "exception" /\ last'.found # <<>> /\ last'.fail = "none") =>
        /\ exception_handled' = exception_handled + 1
        /\ last'.instr = "GoHandled"]_vars

\* C14 (amended): every fault answered GoHandled leaves the counter at 2,
\* whatever its value was, and every fault that handle_exception succeeds on
\* is answered GoHandled.
C14_CounterSetToTwo ==
    [][last'.ev = "exception" =>
        /\ last'.instr = "GoHandled" => exception_handled' = 2
        /\ (last'.in[1] = EXCEPTION_ACCESS_VIOLATION /\ last'.fail = "none") =>
              last'.instr = "GoHandled"]_vars

\* a fault was handled for a record: its protection was restored, the answer
\* is GoHandled and the counter is 2
C14_Witness ==
    /\ LastIsFault
    /\ last.protect # <<>>
    /\ last.fail = "none"
    /\ last.instr = "GoHandled"
    /\ exception_handled = 2

-----------------------------------------------------------------------------
(* The continuation scheduler: properties *)

\* the notification reports the execution status "break"; the high half of
\* the argument carries DEBUG_STATUS_INSIDE_WAIT, not the status
ReportsBreak(flags, argument) ==
    flags = DEBUG_CES_EXECUTION_STATUS /\ argument.lo = DEBUG_STATUS_BREAK

\* C15: on an engine-state notification that reports the break status while
\* the counter is positive, the counter goes down by one and the continue
\* command is issued once; on every other engine-state notification the
\* counter keeps its value and no command is issued.
C15_ContinueOnBreak ==
    [][last'.ev = "state" =>
        IF ReportsBreak(last'.in[1], last'.in[2]) /\ exception_handled > 0
        THEN exception_handled' = exception_handled - 1 /\ last'.exec
        ELSE exception_handled' = exception_handled /\ ~last'.exec]_vars

\* a break notification consumed the first of the two pending continuations
C15_Witness ==
    /\ last.ev = "state"
    /\ ReportsBreak(last.in[1], last.in[2])
    /\ last.exec
    /\ exception_handled = 1

-----------------------------------------------------------------------------
(* The dispatch of breakpoint notifications: properties *)

\* unpacker: a breakpoint that is not in the registry (its type is None) is
\* answered NoChange and changes neither the registry, the table nor the host
UnknownBreakpointUnpacker ==
    last'.ev = "None" =>
        /\ last'.instr = "NoChange"
        /\ breakpoints' = breakpoints
        /\ allocations' = allocations
        /\ host_bps' = host_bps

\* function logger: a breakpoint whose identity was read and is not in the
\* registry is answered NoChange, installs no exit hook and changes nothing
UnknownBreakpointLogger ==
    (last'.ev = "call" /\ last'.in[1] \notin DOMAIN inner /\ last'.fail # "panic") =>
        /\ last'.instr = "NoChange"
        /\ ~last'.hook
        /\ inner' = inner
        /\ host_bps' = host_bps

\* C16: a breakpoint notification whose identity is not in the registry is
\* answered with the no-opinion instruction NoChange and leaves the registry
\* and the allocation table unchanged; no exit hook is installed.
C16_UnknownBreakpointNoOpinion ==
    [][UnknownBreakpointUnpacker /\ UnknownBreakpointLogger]_vars

\* a breakpoint outside the registry was hit while a record and its exit hook
\* existed, and was answered NoChange
C16_Witness ==
    /\ last.ev = "None"
    /\ last.instr = "NoChange"
    /\ allocations # <<>>
    /\ \E g \in DOMAIN breakpoints : breakpoints[g].function = "VirtualAllocExit"

\* unpacker: the notification went to the handler of the entry's kind
RoutedUnpacker ==
    /\ (last'.ev = "VirtualAllocEnter" /\ last'.fail \in {"none", "setreg"}) =>
          allocations' = Append(allocations,
              AllocatedMemory(last'.in.rdx, last'.in.r9, 0, last'.in.ro))
    /\ (last'.ev = "VirtualAllocExit" /\ last'.fail = "none") =>
          allocations' =
              update_allocation(allocations, last'.in.rip, last'.in.rax).allocations
    /\ (last'.ev = "VirtualFree" /\ last'.fail = "none") =>
          allocations' = free_allocation(allocations, last'.in.rcx, last'.in.rdx)

MonitoredEvents == {"VirtualAllocEnter", "VirtualAllocExit", "VirtualFree"}

\* C17 (as stated): a breakpoint notification whose identity is in the
\* registry is routed to the entry's handler and answered Go.
C17_KnownBreakpointGo ==
    [][/\ RoutedUnpacker
       /\ last'.ev \in MonitoredEvents => last'.instr = "Go"
       /\ (last'.ev = "call" /\ last'.in[1] \in DOMAIN inner) =>
             (last'.callback # "none" /\ last'.instr = "Go")]_vars

\* C17 (amended): a breakpoint notification whose identity is in the registry
\* is routed to the entry's handler; the answer is Go when the handler
\* completes (in the unpacker also when it returns an error), NoChange when
\* the callback of a function-logger entry returns an error, and GoNotHandled
\* when the handler panics.
C17_KnownBreakpointRouted ==
    [][/\ RoutedUnpacker
       /\ last'.ev \in MonitoredEvents =>
             last'.instr = IF last'.fail = "panic" THEN "GoNotHandled" ELSE "Go"
       /\ (last'.ev = "call" /\ last'.in[1] \in DOMAIN inner) =>
             /\ last'.fail # "panic" => last'.callback # "none"
             /\ last'.instr = IF last'.fail = "panic" THEN "GoNotHandled"
                              ELSE IF last'.callback = "ok" THEN "Go"
                              ELSE "NoChange"]_vars

\* the callback of an exit entry of the function logger ran and was answered Go
C17_Witness ==
    /\ last.ev = "call"
    /\ last.in[1] \in DOMAIN inner
    /\ inner[last.in[1]].callback = "monitored_func_end"
    /\ last.callback = "ok"
    /\ last.instr = "Go"

-----------------------------------------------------------------------------
(* Teardown: properties *)

C19_TeardownRemovesAll ==
    last.ev = "uninitialize" => host_bps = {}

\* C20: an install whose identity is already in the registry is rejected: the
\* entry that the registry holds for that identity stays as it was.
C20_InstallRejected ==
    [][/\ (last'.ev = "insert" /\ last'.in[1] \in DOMAIN inner)
            => inner'[last'.in[1]] = inner[last'.in[1]]
       /\ (last'.ev = "add_breakpoint" /\ last'.in[1] \in DOMAIN breakpoints)
            => breakpoints'[last'.in[1]] = breakpoints[last'.in[1]]]_vars

-----------------------------------------------------------------------------
(* Allocation table: pending records, arithmetic, pairing *)

\* the enter event of this step appended a pending record
EnterAppended(before, after) ==
    /\ Len(after) = Len(before) + 1
    /\ SubSeq(after, 1, Len(before)) = before
    /\ after[Len(after)].address = 0

\* C21: a record whose base address has not been resolved is returned by no
\* lookup: appending a pending record changes the result of no lookup.
C21_PendingNeverReturned ==
    [][(last'.ev = "VirtualAllocEnter" /\ EnterAppended(allocations, allocations'))
       => \A address \in Probes :
            get_allocation(allocations', address) = get_allocation(allocations, address)]_vars

\* the sum with the saturated upper bound
saturating_add(x, y) ==
    IF overflowing_add(x, y).overflow THEN U64(65535, 65535, 65535, 65535)
    ELSE overflowing_add(x, y).value

\* the first record the comparison of get_allocation accepts when the upper
\* bound is the saturated sum
SaturatedLookup(allocs, address) ==
    LET Hit(a) == ~u64_lt(address, a.address)
                  /\ u64_lt(saturating_add(a.address, a.size), address)
        i == FirstIndex({k \in DOMAIN allocs : Hit(allocs[k])})
    IN  IF i # 0 THEN <<allocs[i]>> ELSE <<>>

\* C22: a lookup in a table with a record whose base + size exceeds 2^64 - 1
\* does not abort and returns what the comparison returns with the saturated
\* upper bound.
C22_NoOverflow ==
    last.ev = "get_allocation" =>
        /\ last.fail = "none"
        /\ last.found = SaturatedLookup(allocations, last.in[1])

-----------------------------------------------------------------------------
(* start_monitor *)

\* the entries of the registry with the given function
HooksOf(function) == {g \in DOMAIN breakpoints : breakpoints[g].function = function}

\* C23: after a start_monitor that succeeded the registry holds exactly two
\* entries, one allocation-enter hook and one deallocation hook, the allocation
\* table is empty, the directory is the one given, the event callbacks are
\* installed and the counter is 0.
C23_StartPostcondition ==
    (last.ev = "start" /\ last.fail = "none") =>
        /\ Cardinality(DOMAIN breakpoints) = 2
        /\ Cardinality(HooksOf("VirtualAllocEnter")) = 1
        /\ Cardinality(HooksOf("VirtualFree")) = 1
        /\ allocations = <<>>
        /\ directory = last.in[1]
        /\ callbacks
        /\ exception_handled = 0

\* C24: the exit event that follows an enter event from the same return
\* address resolves the record that this enter event created, also when
\* earlier calls from that address have been resolved: after it, the last
\* record of the table has the returned value as its base address.
C24_ExitResolvesOwnRecord ==
    [][(/\ last.ev = "VirtualAllocEnter" /\ last.fail \in {"none", "setreg"}
        /\ \A i \in 1..(Len(allocations) - 1) : Resolved(allocations[i])
        /\ last'.ev = "VirtualAllocExit" /\ last'.fail = "none"
        /\ last'.in.rip = last.in.ro)
       => /\ Len(allocations') = Len(allocations)
          /\ allocations'[Len(allocations')].address = last'.in.rax]_vars

-----------------------------------------------------------------------------
(* The continuation scheduler: the bound *)

\* C25: the counter stays within 0..2; every continue command takes one off
\* the counter, and only a handled fault raises it. So between two handled
\* faults at most two continue commands are issued, whatever the number of
\* break notifications.
C25_BoundedContinues ==
    [][/\ exception_handled' \in 0..2
       /\ last'.exec =>
            (exception_handled > 0 /\ exception_handled' = exception_handled - 1)
       /\ exception_handled' > exception_handled =>
            (last'.ev = "exception" /\ last'.instr = "GoHandled")]_vars

\* the second continue command after a handled fault has been issued: the
\* counter is back at 0
C25_Witness ==
    /\ last.ev = "state"
    /\ last.exec
    /\ exception_handled = 0

-----------------------------------------------------------------------------
(* The protection of a record *)

\* C26: the record that an enter event appends holds the protection the caller
\* passed in r9, not the one written back to r9, and no step that keeps a
\* record in the table changes its protection.
C26_OriginalProtectionKept ==
    [][/\ (last'.ev = "VirtualAllocEnter" /\ EnterAppended(allocations, allocations'))
            => allocations'[Len(allocations')].protection = last'.in.r9
       /\ Len(allocations') >= Len(allocations) =>
            \A i \in DOMAIN allocations :
                allocations'[i].protection = allocations[i].protection]_vars

\* an enter event with PAGE_EXECUTE_READWRITE: r9 was rewritten to
\* PAGE_READWRITE and the record holds PAGE_EXECUTE_READWRITE
C26_Witness ==
    /\ last.ev = "VirtualAllocEnter"
    /\ last.in.r9 = PAGE_EXECUTE_READWRITE
    /\ last.r9 = PAGE_READWRITE
    /\ allocations # <<>>
    /\ allocations[Len(allocations)].protection = PAGE_EXECUTE_READWRITE

-----------------------------------------------------------------------------
(* Installation of the exit hook *)

\* the entries that the step added to the function logger's registry
NewEntries == DOMAIN inner' \ DOMAIN inner

\* the step is the first fire of the enter entry g of the function logger
FirstFire(g) ==
    /\ last'.ev = "call"
    /\ last'.in[1] = g
    /\ g \in Enters(inner)
    /\ ~inner[g].function_return_hooked

\* the new entry x is the exit entry of g
ExitEntryOf(x, g) ==
    /\ inner'[x].callback = "monitored_func_end"
    /\ inner'[x].function_name = inner[g].function_name
    /\ inner'[x].function_return_hooked

FirstFireLogger ==
    \A g \in DOMAIN inner :
        FirstFire(g) =>
            IF last'.fail = "none"
            THEN /\ inner'[g].function_return_hooked
                 /\ \E x \in NewEntries :
                        /\ NewEntries = {x}
                        /\ ExitEntryOf(x, g)
                        /\ inner'[x].bp.offset = last'.in[2]
            ELSE IF last'.fail = "setoffset"
            THEN /\ inner'[g].function_return_hooked
                 /\ \E x \in NewEntries :
                        /\ NewEntries = {x}
                        /\ ExitEntryOf(x, g)
                        /\ inner'[x].bp.offset = 0
            ELSE /\ NewEntries = {}
                 /\ inner'[g].function_return_hooked = last'.hook

\* unpacker: an enter event from a return address that has no exit hook adds
\* one VirtualAllocExit entry at that address and marks an enter entry, unless
\* the register read, the stack walk or the creation of the breakpoint fails
FirstFireUnpacker ==
    (/\ last'.ev = "VirtualAllocEnter"
     /\ ~is_address_hooked(breakpoints, last'.in.ro, "VirtualAllocExit"))
    => IF last'.fail \in {"none", "setreg"}
       THEN /\ \E x \in DOMAIN breakpoints' \ DOMAIN breakpoints :
                /\ DOMAIN breakpoints' \ DOMAIN breakpoints = {x}
                /\ breakpoints'[x].function = "VirtualAllocExit"
                /\ breakpoints'[x].address = last'.in.ro
            /\ \E g \in DOMAIN breakpoints :
                /\ breakpoints[g].function = "VirtualAllocEnter"
                /\ breakpoints'[g].function_exit_hooked
       ELSE breakpoints' = breakpoints

-----------------------------------------------------------------------------
(* The result of update_allocation *)

\* no record of the table has the key
UnknownKey(allocs, key) == \A i \in DOMAIN allocs : allocs[i].function_return # key

\* the record that update_allocation resolves for the key has size 0
ZeroSizeKey(allocs, key) ==
    \E i \in DOMAIN allocs :
        /\ allocs[i].function_return = key
        /\ allocs[i].size = 0
        /\ \A j \in 1..(i - 1) : allocs[j].function_return # key

\* C28: the result of update_allocation for a key that no record has differs
\* from its result for a key whose record has size 0.
C28_NotFoundDistinct ==
    \A unknown \in RetSites, known \in RetSites, rax \in RetVals :
        (UnknownKey(allocations, unknown) /\ ZeroSizeKey(allocations, known)) =>
            update_allocation(allocations, unknown, rax).result
                # update_allocation(allocations, known, rax).result

-----------------------------------------------------------------------------
(* Frame conditions of the allocation table *)

\* the record matches the arguments of VirtualFree
Matches(a, address, size) == a.address = address /\ (a.size = size \/ size = 0)

\* after is before without its i-th record: the records before i are where
\* they were and the records after i have moved up by one
WithoutRecord(before, after, i) ==
    /\ Len(after) = Len(before) - 1
    /\ \A k \in 1..(i - 1) : after[k] = before[k]
    /\ \A k \in i..Len(after) : after[k] = before[k + 1]

\* C29: a VirtualFree event removes the first record that matches its
\* arguments and no other, and keeps the remaining records in their order; it
\* leaves the table as it was when no record matches.
C29_EndRemovesFirstMatch ==
    [][(last'.ev = "VirtualFree" /\ last'.fail = "none") =>
        LET addr == last'.in.rcx
            s == last'.in.rdx
        IN  IF \E i \in DOMAIN allocations : Matches(allocations[i], addr, s)
            THEN \E i \in DOMAIN allocations :
                    /\ Matches(allocations[i], addr, s)
                    /\ \A j \in 1..(i - 1) : ~Matches(allocations[j], addr, s)
                    /\ WithoutRecord(allocations, allocations', i)
            ELSE allocations' = allocations]_vars

\* VirtualFree(addr, 0x1000) ran and a record of that address and size is
\* still in the table: of two records that matched, one was removed
C29_Witness ==
    /\ last.ev = "VirtualFree"
    /\ last.fail = "none"
    /\ last.in.rdx = 4096
    /\ last.in.rcx # 0
    /\ \E k \in DOMAIN allocations :
        allocations[k].address = last.in.rcx /\ allocations[k].size = 4096

\* C30: an enter event whose register read and stack walk succeed appends one
\* pending record made of the size, the protection and the return address of
\* the call, and leaves every record that was in the table as it was; an enter
\* event that fails before that leaves the table unchanged.
C30_BeginAppendsOne ==
    [][last'.ev = "VirtualAllocEnter" =>
        IF last'.fail \in {"none", "setreg"}
        THEN /\ Len(allocations') = Len(allocations) + 1
             /\ \A i \in DOMAIN allocations : allocations'[i] = allocations[i]
             /\ allocations'[Len(allocations')] =
                    AllocatedMemory(last'.in.rdx, last'.in.r9, 0, last'.in.ro)
        ELSE \/ allocations' = allocations
             \/ allocations' = Append(allocations,
                    AllocatedMemory(last'.in.rdx, last'.in.r9, 0, last'.in.ro))]_vars

\* an enter event appended a pending record next to a resolved record of the
\* same size and protection
C30_Witness ==
    /\ last.ev = "VirtualAllocEnter"
    /\ last.fail = "none"
    /\ Len(allocations) = 2
    /\ Resolved(allocations[1])
    /\ allocations[2].address = 0
    /\ allocations[1].size = allocations[2].size
    /\ allocations[1].protection = allocations[2].protection

-----------------------------------------------------------------------------
(* The enter event: what the target resumes with *)

\* C31: when the instruction for an enter event with PAGE_EXECUTE_READWRITE in
\* r9 is handed back, r9 already holds PAGE_READWRITE: the allocator does not
\* run with the protection the caller asked for.
C31_FlipBeforeResume ==
    (/\ last.ev = "VirtualAllocEnter"
     /\ last.in.r9 = PAGE_EXECUTE_READWRITE
     /\ last.instr \in {"Go", "GoNotHandled"})
    => last.r9 = PAGE_READWRITE

-----------------------------------------------------------------------------
(* The event shim: panics of the callbacks *)

\* C32: no notification ends with a panic unwinding into the host. When the
\* callback of a breakpoint or exception notification panics the instruction
\* handed back is GoNotHandled, otherwise it is the callback's instruction;
\* an engine-state notification hands back no instruction and returns,
\* whether its callback panicked or not.
C32_PanicsCaught ==
    last.ev \in {"Breakpoint", "Exception", "ChangeEngineState"} =>
        /\ last.fail # "abort"
        /\ last.ev \in {"Breakpoint", "Exception"} =>
              last.instr = IF last.in[1] = "panic" THEN "GoNotHandled" ELSE last.in[1]
        /\ last.ev = "ChangeEngineState" => last.instr = "none"

\* the callback of an exception notification panicked and the host was
\* answered GoNotHandled
C32_Witness ==
    /\ last.ev = "Exception"
    /\ last.in[1] = "panic"
    /\ last.fail = "panic"
    /\ last.instr = "GoNotHandled"

-----------------------------------------------------------------------------
(* The exit hooks of the function logger *)

\* C33: after a fire of an enter entry that ran without a failure, the
\* registry holds an exit entry of the function at the return address of the
\* fire (for an entry whose earlier fires, if any, installed their exit entry).
C33_ExitHookAtEverySite ==
    [][\A g \in Enters(inner) :
        (/\ last'.ev = "call" /\ last'.in[1] = g /\ last'.fail = "none"
         /\ inner[g].function_return_hooked => ExitsOf(inner, g) # {})
        => \E x \in DOMAIN inner' :
            /\ inner'[x].callback = "monitored_func_end"
            /\ inner'[x].function_name = inner[g].function_name
            /\ inner'[x].bp.offset = last'.in[2]]_vars

\* C34: an enter entry of the function logger is marked only when its exit
\* entry is in the registry: a fire that fails to walk the stack or to create
\* the exit breakpoint leaves the entry unmarked.
C34_MarkedOnlyIfInstalled ==
    \A g \in Enters(inner) :
        (OnlyEntryFor(inner, g) /\ inner[g].function_return_hooked) =>
            ExitsOf(inner, g) # {}

-----------------------------------------------------------------------------
(* Pending records and failed allocations *)

\* the records of the table that are pending, in their order
Pending(allocs) ==
    LET IsPending(a) == a.address = 0 IN SelectSeq(allocs, IsPending)

\* C35: a VirtualFree event removes no pending record, whatever its address.
C35_EndKeepsPending ==
    [][last'.ev = "VirtualFree" => Pending(allocations') = Pending(allocations)]_vars

\* C36: a start_monitor that succeeds on a session that already holds one
\* allocation-enter hook and one deallocation hook leaves one of each.
C36_StartIdempotent ==
    [][(/\ Cardinality(HooksOf("VirtualAllocEnter")) = 1
        /\ Cardinality(HooksOf("VirtualFree")) = 1
        /\ last'.ev = "start" /\ last'.fail = "none")
       => LET EntersAfter == {g \in DOMAIN breakpoints' :
                                breakpoints'[g].function = "VirtualAllocEnter"}
              FreesAfter == {g \in DOMAIN breakpoints' :
                                breakpoints'[g].function = "VirtualFree"}
          IN  Cardinality(EntersAfter) = 1 /\ Cardinality(FreesAfter) = 1]_vars

\* C37: after an exit event that observed the return value 0 for the only
\* record of the table, a fault is matched against no record: the failed
\* allocation left no region behind.
C37_FailedAllocationUntracked ==
    [][(/\ last.ev = "VirtualAllocExit" /\ last.fail = "none" /\ last.in.rax = 0
        /\ Len(allocations) = 1
        /\ last'.ev = "exception"
        /\ last'.in[1] = EXCEPTION_ACCESS_VIOLATION)
       => last'.found = <<>>]_vars

=============================================================================
